---- MODULE Spec2Model ----
(***************************************************************************)
(* Model of app/main.py of manus-mcp: the two MCP tools hello_world and    *)
(* google_search, the asyncio event loop that runs their coroutines, and   *)
(* the default executor (a bounded pool of worker threads fed by a FIFO    *)
(* queue) to which google_search hands the blocking provider call.         *)
(*                                                                         *)
(* Text is modelled by TLA+ strings; formatting is string concatenation.   *)
(* The search provider (googlesearch.search) is the environment: each call *)
(* is one run of its generator, which yields some URLs and then either     *)
(* stops or raises.                                                        *)
(***************************************************************************)
EXTENDS Integers, Sequences, FiniteSets, TLC

(* ------------------------------ bounds --------------------------------- *)

\* Number of google_search invocations a behaviour may issue.
NumCalls == 2

\* Number of worker threads of the default executor.
MaxWorkers == 1

(* ------------------------- optional values ----------------------------- *)

\* Python's None, and a present value.
None == [isNone |-> TRUE]

Some(v) == [isNone |-> FALSE, val |-> v]

(* ------------------------------ inputs --------------------------------- *)

Calls == 1 .. NumCalls

Workers == 1 .. MaxWorkers

\* The event loop's thread runs no coroutine.
NoTask == 0

\* Arguments a caller may pass: the query (the empty one included) and
\* num_results, omitted or an explicit integer.
Requests ==
    { [query |-> "weather today", num_results |-> None],
      [query |-> "weather today", num_results |-> Some(3)],
      [query |-> "weather today", num_results |-> Some(0)],
      [query |-> "", num_results |-> Some(-1)] }

\* The name a caller passes to hello_world: omitted.
NameArgs == {None}

\* The process environment at import time.
Environments ==
    { [GOOGLE_SEARCH_MAX_RESULTS |-> None, GOOGLE_SEARCH_USER_AGENT |-> None],
      [GOOGLE_SEARCH_MAX_RESULTS |-> Some("3"),
       GOOGLE_SEARCH_USER_AGENT |-> Some("curl/8")] }

\* No exception, and an exception of class cls constructed with message msg.
NoExc == [raised |-> FALSE]

Exc(cls, msg) == [raised |-> TRUE, cls |-> cls, msg |-> msg]

\* Runs of the provider's generator: the URLs it yields, in order, and the
\* exception that ends the run, if any.
ProviderRuns ==
    { [items |-> <<"a.com", "b.com", "c.com", "d.com">>, exc |-> NoExc],
      [items |-> <<"b.com", "a.com", "b.com">>, exc |-> NoExc],
      [items |-> <<>>, exc |-> Exc("HTTPError", "429")],
      [items |-> <<"a.com", "b.com">>, exc |-> Exc("ValueError", "")] }

\* Classes of the exceptions above that derive from Exception.
ExceptionSubclasses == {"HTTPError", "ValueError"}

(* ------------------------------ state ---------------------------------- *)

VARIABLES
    environ,                    \* os.environ as read at import
    GOOGLE_SEARCH_USER_AGENT,   \* module global
    GOOGLE_SEARCH_MAX_RESULTS,  \* module global
    loop,                       \* the coroutine the event loop is running
    pc,                         \* position of each google_search coroutine
    args,                       \* arguments of each invocation
    num_results,                \* the local num_results of each invocation
    queue,                      \* work queue of the default executor
    worker,                     \* the job each worker thread is running
    fut,                        \* the future each invocation awaits
    provCalls,                  \* history: provider calls made for each invocation
    result,                     \* value each invocation returned
    hello                       \* the hello_world call and what it returned

vars == <<environ, GOOGLE_SEARCH_USER_AGENT, GOOGLE_SEARCH_MAX_RESULTS, loop,
          pc, args, num_results, queue, worker, fut, provCalls, result, hello>>

config == <<environ, GOOGLE_SEARCH_USER_AGENT, GOOGLE_SEARCH_MAX_RESULTS>>

(* --------------------------- pure functions ---------------------------- *)

\* os.getenv(name, default) on an optional environment entry.
getenv(entry, default) == IF entry.isNone THEN default ELSE entry.val

DigitVal(c) ==
    CASE c = "0" -> 0 [] c = "1" -> 1 [] c = "2" -> 2 [] c = "3" -> 3
      [] c = "4" -> 4 [] c = "5" -> 5 [] c = "6" -> 6 [] c = "7" -> 7
      [] c = "8" -> 8 [] c = "9" -> 9

RECURSIVE ParseNat(_)
ParseNat(s) ==
    IF s = "" THEN 0
    ELSE ParseNat(SubSeq(s, 1, Len(s) - 1)) * 10
         + DigitVal(SubSeq(s, Len(s), Len(s)))

\* int(s) for a decimal literal with an optional sign.
int(s) ==
    IF SubSeq(s, 1, 1) = "-" THEN 0 - ParseNat(SubSeq(s, 2, Len(s)))
    ELSE ParseNat(s)

\* A variant that ignores the configured maximum.
DefaultNumResults_hardcoded(n) == IF n.isNone THEN 10 ELSE n.val

\* A variant that tests truthiness instead of identity with None.
DefaultNumResults_falsy(n) ==
    IF n.isNone \/ n.val = 0 THEN GOOGLE_SEARCH_MAX_RESULTS ELSE n.val

\* Lines 58-59: the configured maximum replaces an omitted num_results.
DefaultNumResults(n) == IF n.isNone THEN GOOGLE_SEARCH_MAX_RESULTS ELSE n.val

\* str(e) of an exception constructed with one message argument.
str(e) == e.msg

\* Line 78: the value returned by the except branch.
ErrorResult(e) == <<"Error performing search: " \o str(e)>>

\* A variant of the except clause that names one class only.
Caught_narrow(e) == e.cls = "ValueError"

\* Line 76: `except Exception` catches instances of Exception's subclasses.
Caught(e) == e.cls \in ExceptionSubclasses

\* Line 68: list(search(...)) collects what the generator yields; an
\* exception raised by the generator propagates and the partial list is lost.
ListOfSearch(run) ==
    IF run.exc.raised THEN [kind |-> "exc", exc |-> run.exc, value |-> <<>>]
    ELSE [kind |-> "ok", value |-> run.items]

PendingFuture == [kind |-> "pending", value |-> <<>>]

\* Line 40: the greeting.
Greeting(name) == "Hello, " \o name \o "! Welcome to Manus MCP."

(* ------------------------------- Init ---------------------------------- *)

NoJob == [task |-> NoTask]

Init ==
    /\ environ \in Environments
    /\ GOOGLE_SEARCH_USER_AGENT =
           getenv(environ.GOOGLE_SEARCH_USER_AGENT, "Mozilla/5.0")
    /\ GOOGLE_SEARCH_MAX_RESULTS =
           int(getenv(environ.GOOGLE_SEARCH_MAX_RESULTS, "10"))
    /\ loop = NoTask
    /\ pc = [t \in Calls |-> "idle"]
    /\ args = [t \in Calls |-> [query |-> "", num_results |-> None]]
    /\ num_results = [t \in Calls |-> None]
    /\ queue = <<>>
    /\ worker = [w \in Workers |-> NoJob]
    /\ fut = [t \in Calls |-> PendingFuture]
    /\ provCalls = [t \in Calls |-> <<>>]
    /\ result = [t \in Calls |-> <<>>]
    /\ hello = [pc |-> "idle", out |-> "", overlap |-> FALSE]

(* ------------------------------ actions -------------------------------- *)

\* A search has been handed to the executor and its provider call has not
\* completed.
InFlight(t) == pc[t] = "awaiting" /\ fut[t].kind = "pending"

\* Lines 31-40: hello_world runs to its return in one step of the loop.
hello_world ==
    /\ loop = NoTask
    /\ hello.pc = "idle"
    /\ \E name \in NameArgs :
          hello' = [pc |-> "returned",
                    out |-> Greeting(IF name.isNone THEN "World" ELSE name.val),
                    overlap |-> \E t \in Calls : InFlight(t)]
    /\ UNCHANGED <<config, loop, pc, args, num_results, queue, worker, fut,
                   provCalls, result>>

\* Lines 44, 58-61: the loop starts the coroutine of invocation t, which
\* settles its local num_results. Invocations are numbered in the order in
\* which the loop starts them.
google_search_call(t) ==
    /\ loop = NoTask
    /\ pc[t] = "idle"
    /\ \A u \in Calls : u < t => pc[u] # "idle"
    /\ \E r \in Requests :
          /\ args' = [args EXCEPT ![t] = r]
          /\ num_results' = [num_results EXCEPT ![t] =
                 Some(DefaultNumResults(r.num_results))]
    /\ loop' = t
    /\ pc' = [pc EXCEPT ![t] = "entered"]
    /\ UNCHANGED <<config, queue, worker, fut, provCalls, result, hello>>

\* A variant in which the lambda reads the request of another invocation
\* that is under way instead of its own captured locals.
Closure_shared(t) ==
    LET others == {u \in Calls : u # t /\ pc[u] # "idle"}
        src == IF others = {} THEN t ELSE CHOOSE u \in others : TRUE
    IN  [task |-> t, query |-> args[src].query,
         num_results |-> num_results[src].val]

\* Lines 68-72: the lambda closes over the coroutine's own query and
\* num_results.
Closure(t) ==
    [task |-> t, query |-> args[t].query, num_results |-> num_results[t].val]

\* A variant that makes the provider call on the loop's own thread.
AwaitExecutor_blocking(t) == t

\* Line 66: awaiting the executor's future suspends the coroutine, which
\* gives the loop's thread back.
AwaitExecutor(t) == NoTask

\* Lines 64-73: run_in_executor queues the lambda on the default executor
\* and the coroutine awaits its future.
google_search_dispatch(t) ==
    /\ loop = t
    /\ pc[t] = "entered"
    /\ queue' = Append(queue, Closure(t))
    /\ fut' = [fut EXCEPT ![t] = PendingFuture]
    /\ pc' = [pc EXCEPT ![t] = "awaiting"]
    /\ loop' = AwaitExecutor(t)
    /\ UNCHANGED <<config, args, num_results, worker, provCalls, result, hello>>

\* The executor: an idle worker thread takes the oldest queued job.
worker_take(w) ==
    /\ worker[w] = NoJob
    /\ queue # <<>>
    /\ worker' = [worker EXCEPT ![w] = Head(queue)]
    /\ queue' = Tail(queue)
    /\ UNCHANGED <<config, loop, pc, args, num_results, fut, provCalls,
                   result, hello>>

\* Lines 68-72 in the worker thread: one provider call with the closure's
\* arguments; its list, or the exception it raised, completes the future.
search(w) ==
    /\ worker[w] # NoJob
    /\ \E run \in ProviderRuns :
          LET job == worker[w] IN
          /\ provCalls' = [provCalls EXCEPT ![job.task] =
                 Append(@, [query |-> job.query,
                            num_results |-> job.num_results,
                            user_agent |-> GOOGLE_SEARCH_USER_AGENT,
                            run |-> run])]
          /\ fut' = [fut EXCEPT ![job.task] = ListOfSearch(run)]
    /\ worker' = [worker EXCEPT ![w] = NoJob]
    /\ UNCHANGED <<config, loop, pc, args, num_results, queue, result, hello>>

\* A variant that does not await the future.
FutureDone_noawait(t) == TRUE

\* Line 66: the await ends when the future is done.
FutureDone(t) == fut[t].kind # "pending"

\* A variant whose except branch runs the search again.
google_search_resume_retry(t) ==
    /\ loop = NoTask
    /\ pc[t] = "awaiting"
    /\ FutureDone(t)
    /\ IF fut[t].kind = "exc"
       THEN /\ queue' = Append(queue, Closure(t))
            /\ fut' = [fut EXCEPT ![t] = PendingFuture]
            /\ UNCHANGED <<pc, result>>
       ELSE /\ result' = [result EXCEPT ![t] = fut[t].value]
            /\ pc' = [pc EXCEPT ![t] = "returned"]
            /\ UNCHANGED <<queue, fut>>
    /\ UNCHANGED <<config, loop, args, num_results, worker, provCalls, hello>>

\* A variant whose except branch keeps the URLs yielded before the failure.
google_search_resume_partial(t) ==
    /\ loop = NoTask
    /\ pc[t] = "awaiting"
    /\ FutureDone(t)
    /\ result' = [result EXCEPT ![t] =
           IF fut[t].kind = "exc"
           THEN provCalls[t][Len(provCalls[t])].run.items
                \o ErrorResult(fut[t].exc)
           ELSE fut[t].value]
    /\ pc' = [pc EXCEPT ![t] = "returned"]
    /\ UNCHANGED <<config, loop, args, num_results, queue, worker, fut,
                   provCalls, hello>>

\* Lines 66, 74-78: the loop resumes the coroutine once its future is done;
\* it returns the links, or the error list when the future holds a caught
\* exception; any other exception leaves the coroutine.
google_search_resume(t) ==
    /\ loop = NoTask
    /\ pc[t] = "awaiting"
    /\ FutureDone(t)
    /\ IF fut[t].kind = "exc"
       THEN IF Caught(fut[t].exc)
            THEN /\ result' = [result EXCEPT ![t] = ErrorResult(fut[t].exc)]
                 /\ pc' = [pc EXCEPT ![t] = "returned"]
            ELSE /\ pc' = [pc EXCEPT ![t] = "faulted"]
                 /\ UNCHANGED result
       ELSE /\ result' = [result EXCEPT ![t] = fut[t].value]
            /\ pc' = [pc EXCEPT ![t] = "returned"]
    /\ UNCHANGED <<config, loop, args, num_results, queue, worker, fut,
                   provCalls, hello>>

Next ==
    \/ hello_world
    \/ \E t \in Calls : google_search_call(t)
    \/ \E t \in Calls : google_search_dispatch(t)
    \/ \E w \in Workers : worker_take(w)
    \/ \E w \in Workers : search(w)
    \/ \E t \in Calls : google_search_resume(t)

Spec == Init /\ [][Next]_vars

\* A step of an invocation that is under way: the loop running a ready
\* coroutine, or a thread of the executor running.
Progress ==
    \/ \E t \in Calls : google_search_dispatch(t)
    \/ \E w \in Workers : worker_take(w)
    \/ \E w \in Workers : search(w)
    \/ \E t \in Calls : google_search_resume(t)

\* The loop runs a ready coroutine, the executor's threads run, and a
\* provider call ends (by returning or by raising): while some such step is
\* possible, one is eventually taken.
Fairness == WF_vars(Progress)

FairSpec == Spec /\ Fairness

(* ------------------------------ claims --------------------------------- *)

Returned(t) == pc[t] = "returned"

\* The provider call made for invocation t (once one has been made).
TheCall(t) == provCalls[t][1]

\* The limit invocation t works with.
Limit(t) == IF args[t].num_results.isNone THEN GOOGLE_SEARCH_MAX_RESULTS
            ELSE args[t].num_results.val

Contains(s, sub) ==
    \E i \in 1 .. (Len(s) - Len(sub) + 1) : SubSeq(s, i, i + Len(sub) - 1) = sub

StartsWith(s, p) == Len(s) >= Len(p) /\ SubSeq(s, 1, Len(p)) = p

Range(f) == {f[i] : i \in DOMAIN f}

Take(s, n) == SubSeq(s, 1, IF n < Len(s) THEN n ELSE Len(s))

\* C1: when the provider call of an invocation raises, the invocation does
\* not fault: it returns a sequence of exactly one element, which contains
\* "Error performing search".
C1_ProviderFailureIsReturned ==
    \A t \in Calls :
        /\ pc[t] # "faulted"
        /\ (Returned(t) /\ TheCall(t).run.exc.raised) =>
               /\ Len(result[t]) = 1
               /\ Contains(result[t][1], "Error performing search")

C1_Witness ==
    \E t \in Calls :
        /\ Returned(t)
        /\ TheCall(t).run.exc.raised
        /\ result[t] = <<"Error performing search: 429">>

\* C2: a successful invocation with a non-empty query and a positive limit N
\* returns at most N URLs, whatever the provider yields.
C2_AtMostLimit ==
    \A t \in Calls :
        (/\ Returned(t)
         /\ ~TheCall(t).run.exc.raised
         /\ args[t].query # ""
         /\ Limit(t) >= 1) => Len(result[t]) <= Limit(t)

\* C3: a search in flight (handed to the executor, its provider call not
\* completed) does not hold the event loop: a hello_world call that has been
\* issued can run to its return unless the loop is in the middle of the
\* synchronous start of another invocation.
C3_SearchDoesNotBlockHello ==
    \A t \in Calls :
        InFlight(t) =>
            /\ loop # t
            /\ (hello.pc = "idle" /\ \A u \in Calls : pc[u] # "entered")
                   => ENABLED hello_world

C3_Witness ==
    /\ hello.pc = "returned"
    /\ hello.overlap
    /\ hello.out = "Hello, World! Welcome to Manus MCP."
    /\ \E t \in Calls : InFlight(t) /\ \E w \in Workers : worker[w].task = t

\* C4: with num_results omitted the provider is called with the configured
\* maximum, which is 10 when the environment does not set it.
C4_OmittedUsesConfiguredMax ==
    \A t \in Calls :
        (args[t].num_results.isNone /\ provCalls[t] # <<>>) =>
            /\ TheCall(t).num_results = GOOGLE_SEARCH_MAX_RESULTS
            /\ environ.GOOGLE_SEARCH_MAX_RESULTS.isNone =>
                   TheCall(t).num_results = 10
            /\ environ.GOOGLE_SEARCH_MAX_RESULTS = Some("3") =>
                   TheCall(t).num_results = 3

C4_Witness ==
    \E t \in Calls :
        /\ pc[t] # "idle"
        /\ args[t].num_results.isNone
        /\ environ.GOOGLE_SEARCH_MAX_RESULTS.isNone
        /\ provCalls[t] # <<>>
        /\ TheCall(t).num_results = 10

\* C5: a successful invocation returns the provider's URLs in the provider's
\* order, cut to the limit: the first Limit URLs the provider yielded.
C5_ProviderOrderCutToLimit ==
    \A t \in Calls :
        (/\ Returned(t)
         /\ ~TheCall(t).run.exc.raised
         /\ Limit(t) >= 1) => result[t] = Take(TheCall(t).run.items, Limit(t))

\* C6: an invocation calls the provider at most once, and exactly once by
\* the time it has returned, whether the call succeeded or raised.
C6_NoRetries ==
    \A t \in Calls :
        /\ Len(provCalls[t]) <= 1
        /\ pc[t] \in {"returned", "faulted"} => Len(provCalls[t]) = 1
        /\ provCalls[t] # <<>> =>
               /\ \A i \in DOMAIN queue : queue[i].task # t
               /\ \A w \in Workers : worker[w].task # t

C6_Witness ==
    \E t \in Calls :
        /\ Returned(t)
        /\ Len(provCalls[t]) = 1
        /\ TheCall(t).run.exc.raised

\* C7: under fair scheduling every invocation that was started returns, also
\* when more invocations are in flight than the executor has threads, and
\* none returns before its own provider call has completed or raised. A
\* started invocation stays started and a returned one stays returned, so
\* "each started invocation eventually returns" is: from some point on, no
\* invocation is under way.
C7_EveryInvocationReturns ==
    /\ <>[](\A t \in Calls : pc[t] \in {"idle", "returned"})
    /\ [][\A t \in Calls : /\ pc[t] # "idle" => pc'[t] # "idle"
                           /\ Returned(t) => pc'[t] = "returned"]_vars
    /\ [](\A t \in Calls :
             Returned(t) => fut[t].kind # "pending" /\ provCalls[t] # <<>>)

C7_Witness ==
    /\ Cardinality({t \in Calls : InFlight(t)}) > MaxWorkers
    /\ queue # <<>>
    /\ \A w \in Workers : worker[w] # NoJob

\* What an invocation returns for a run of the provider.
OutcomeOf(run) ==
    IF run.exc.raised THEN <<"Error performing search: " \o run.exc.msg>>
    ELSE run.items

\* C8: every invocation that returned made one provider call with its own
\* query and limit and returned the outcome of that call; the module's
\* globals are as they were set at import.
C8_InvocationsIndependent ==
    /\ \A t \in Calls :
           Returned(t) =>
               /\ Len(provCalls[t]) = 1
               /\ TheCall(t).query = args[t].query
               /\ TheCall(t).num_results = Limit(t)
               /\ result[t] = OutcomeOf(TheCall(t).run)
    /\ GOOGLE_SEARCH_MAX_RESULTS \in {3, 10}
    /\ GOOGLE_SEARCH_MAX_RESULTS = 10 <=> environ.GOOGLE_SEARCH_MAX_RESULTS.isNone
    /\ GOOGLE_SEARCH_USER_AGENT = "Mozilla/5.0"
           <=> environ.GOOGLE_SEARCH_USER_AGENT.isNone

C8_Witness ==
    \E t, u \in Calls :
        /\ t # u
        /\ Returned(t) /\ Returned(u)
        /\ args[t] # args[u]
        /\ TheCall(t).run.exc.raised
        /\ ~TheCall(u).run.exc.raised
        /\ result[u] = TheCall(u).run.items
        /\ Len(result[t]) = 1

\* C9: an explicit num_results reaches the provider unchanged, 0 and
\* negative values included, with the query unchanged; no invocation ends
\* without its provider call, whatever its query and num_results.
C9_ExplicitNumResultsUnchanged ==
    \A t \in Calls :
        /\ (~args[t].num_results.isNone /\ provCalls[t] # <<>>) =>
               /\ TheCall(t).num_results = args[t].num_results.val
               /\ TheCall(t).query = args[t].query
        /\ pc[t] \in {"returned", "faulted"} => provCalls[t] # <<>>

C9_Witness ==
    \E t, u \in Calls :
        /\ args[t].num_results = Some(0)
        /\ Returned(t)
        /\ TheCall(t).num_results = 0
        /\ args[u].query = ""
        /\ Returned(u)
        /\ TheCall(u).query = ""

\* URLs the provider may yield.
ProviderURLs == UNION {Range(run.items) : run \in ProviderRuns}

\* C10: when the provider yields URLs and then raises, the invocation
\* returns the error string alone; no returned sequence holds both a
\* provider URL and an error string.
C10_AllOrNothing ==
    \A t \in Calls :
        Returned(t) =>
            /\ TheCall(t).run.exc.raised =>
                   /\ Len(result[t]) = 1
                   /\ StartsWith(result[t][1], "Error performing search: ")
                   /\ Range(result[t]) \cap Range(TheCall(t).run.items) = {}
            /\ ~(/\ Range(result[t]) \cap ProviderURLs # {}
                 /\ \E i \in DOMAIN result[t] :
                        StartsWith(result[t][i], "Error performing search: "))

C10_Witness ==
    \E t \in Calls :
        /\ Returned(t)
        /\ TheCall(t).run.exc.raised
        /\ TheCall(t).run.items = <<"a.com", "b.com">>
        /\ result[t] = <<"Error performing search: ">>

====
